---- MODULE Spec2Model ----
(***************************************************************************)
(* A model of QubitLens (src/QubitLens.ipynb): the QuantumStateTomography  *)
(* class and the widget callbacks that drive it.                           *)
(*                                                                         *)
(* Numbers.  The code computes in IEEE doubles; the model computes         *)
(* exactly, in the ring Z[sqrt 2, i] with power-of-two denominators.  A    *)
(* number is <<a, b, c, d, k>> and stands for                              *)
(*        ((a + b*sqrt2) + (c + d*sqrt2)*i) / 2^k                          *)
(* kept in lowest terms, so that equal numbers are equal tuples.  Angles   *)
(* are counted in units of pi/2: theta in {0, 1, 2} is 0, pi/2, pi and phi *)
(* in {0, 1, 2, 3} is 0, pi/2, pi, 3pi/2.  On that grid cos(theta/2),      *)
(* sin(theta/2) and exp(i*phi) lie in the ring, so every amplitude,        *)
(* probability and fidelity of the model is the exact value the code       *)
(* approximates to rounding.                                               *)
(***************************************************************************)
EXTENDS Integers, Sequences, FiniteSets

VARIABLES
    \* ---- the object (self) of a QuantumStateTomography method call
    n_qubits, n_shotsX, n_shotsY, n_shotsZ,
    \* ---- generate_multi_qubit_state: arguments, locals, position
    thetas, phis, gen_pc, idx, amplitude, state,
    \* ---- fidelity: arguments, result, position
    state1, state2, fid_ret, fid_pc,
    \* ---- plot_multi_bloch: argument, locals, position
    input_state, rho, qubit, reduced_rho, bloch_vec, bloch_pc,
    \* ---- partial_trace_density: arguments, locals (rows done, matrix), position
    pt_rho, target_qubit, pt_i, pt_reduced_rho, pt_pc,
    \* ---- generate_samples: argument, locals, result, position
    meas_op_string, shots_list, n_shots, prob_plus1, samples, samp_pc,
    \* ---- estimate_parameters: the objective of the call, locals, result,
    \*      attempts that returned, attempts that raised, position
    objective, opt_val, opt_params, est_ret, converged_attempts, raised_attempts, est_pc,
    \* ---- the same attempts' results in another order
    ord_val, ord_params, ord_ret,
    \* ---- the notebook's widgets, and what the handler of the latest click did
    n_qubits_slider, shotsX_slider, shotsY_slider, shotsZ_slider,
    theta_sliders, phi_sliders, output_box,
    samples_calls, estimate_calls, fidelity_calls, last_event, events,
    \* ---- one Run click past its length test: the handler's locals
    \*      true_thetas, true_phis (the slider values), the object's fields,
    \*      the state the constructor drew, the generator, and the locals of
    \*      run_tomography and of one evaluation of log_likelihood
    supplied_thetas, supplied_phis,
    true_thetas, true_phis, true_params, n_theta_phi, true_state, ctor_state,
    rng, rng_pos,
    rt_samples, rt_pos, sampled_state, sampled_prob,
    ll_pos, ll_reads, ll_counts,
    est_params, reconstructed_state, fid, run_pc

selfVars == <<n_qubits, n_shotsX, n_shotsY, n_shotsZ>>
genVars == <<thetas, phis, gen_pc, idx, amplitude, state>>
fidVars == <<state1, state2, fid_ret, fid_pc>>
blochVars == <<input_state, rho, qubit, reduced_rho, bloch_vec, bloch_pc>>
ptVars == <<pt_rho, target_qubit, pt_i, pt_reduced_rho, pt_pc>>
sampVars == <<meas_op_string, shots_list, n_shots, prob_plus1, samples, samp_pc>>
estVars == <<objective, opt_val, opt_params, est_ret, converged_attempts, raised_attempts, est_pc>>
ordVars == <<ord_val, ord_params, ord_ret>>
uiVars == <<n_qubits_slider, shotsX_slider, shotsY_slider, shotsZ_slider,
            theta_sliders, phi_sliders, output_box,
            samples_calls, estimate_calls, fidelity_calls, last_event, events>>
objVars == <<true_thetas, true_phis, true_params, n_theta_phi, true_state>>
runVars == <<supplied_thetas, supplied_phis, objVars, ctor_state, rng, rng_pos,
             rt_samples, rt_pos, sampled_state, sampled_prob, ll_pos, ll_reads, ll_counts,
             est_params, reconstructed_state, fid, run_pc>>
vars == <<selfVars, genVars, fidVars, blochVars, ptVars, sampVars, estVars, ordVars, uiVars, runVars>>

-----------------------------------------------------------------------------
(* Bounds *)

\* Largest qubit count explored (the UI slider allows 1..4).
MaxQubits == 2

\* Longest vectors handed to fidelity.
MaxVecLen == 2

\* Largest shot count of an axis.
MaxShots == 2

\* Attempts of one estimate, after the first, that may end at another parameter
\* vector than the first attempt's.
MaxVaried == 1

\* UI events (slider moves and clicks) of one session.
MaxEvents == 4

-----------------------------------------------------------------------------
(* Exact arithmetic in Z[sqrt 2, i] / 2^k *)

RECURSIVE CNorm(_)
CNorm(z) ==
    IF z[5] > 0 /\ z[1] % 2 = 0 /\ z[2] % 2 = 0 /\ z[3] % 2 = 0 /\ z[4] % 2 = 0
    THEN CNorm(<<z[1] \div 2, z[2] \div 2, z[3] \div 2, z[4] \div 2, z[5] - 1>>)
    ELSE z

CZero == <<0, 0, 0, 0, 0>>
COne == <<1, 0, 0, 0, 0>>
CMinusOne == <<-1, 0, 0, 0, 0>>
CImag == <<0, 0, 1, 0, 0>>
CMinusImag == <<0, 0, -1, 0, 0>>
CSqrtHalf == <<0, 1, 0, 0, 1>>

CMax(a, b) == IF a >= b THEN a ELSE b

CAdd(x, y) ==
    LET k == CMax(x[5], y[5])
        p == 2 ^ (k - x[5])
        q == 2 ^ (k - y[5])
    IN  CNorm(<<p * x[1] + q * y[1], p * x[2] + q * y[2],
                p * x[3] + q * y[3], p * x[4] + q * y[4], k>>)

CNeg(x) == <<-x[1], -x[2], -x[3], -x[4], x[5]>>

CSub(x, y) == CAdd(x, CNeg(y))

CMul(x, y) ==
    CNorm(<<(x[1] * y[1] + 2 * x[2] * y[2]) - (x[3] * y[3] + 2 * x[4] * y[4]),
            (x[1] * y[2] + x[2] * y[1]) - (x[3] * y[4] + x[4] * y[3]),
            (x[1] * y[3] + 2 * x[2] * y[4]) + (x[3] * y[1] + 2 * x[4] * y[2]),
            (x[1] * y[4] + x[2] * y[3]) + (x[3] * y[2] + x[4] * y[1]),
            x[5] + y[5]>>)

CConj(x) == <<x[1], x[2], -x[3], -x[4], x[5]>>

CHalf(x) == CNorm(<<x[1], x[2], x[3], x[4], x[5] + 1>>)

\* |x|^2, a real number of the ring
CAbs2(x) == CMul(CConj(x), x)

CReal(x) == <<x[1], x[2], 0, 0, x[5]>>

CRe(x) == CNorm(CReal(x))

CIm(x) == CNorm(<<x[3], x[4], 0, 0, x[5]>>)

CInt(m) == <<m, 0, 0, 0, 0>>

\* sum of f[i] over i in lo..hi, added pairwise (the sum is exact, so the
\* grouping does not change its value)
RECURSIVE CSum(_, _, _)
CSum(f, lo, hi) ==
    IF lo > hi THEN CZero
    ELSE IF lo = hi THEN CAdd(f[lo], CZero)
    ELSE CAdd(CSum(f, lo, (lo + hi) \div 2), CSum(f, ((lo + hi) \div 2) + 1, hi))

-----------------------------------------------------------------------------
(* The angle grid, in units of pi/2 *)

ThetaGrid == {0, 1, 2}
PhiGrid == {0, 1, 2, 3}

\* np.cos(theta/2)
CosHalf(t) == CASE t = 0 -> COne [] t = 1 -> CSqrtHalf [] t = 2 -> CZero

\* np.sin(theta/2)
SinHalf(t) == CASE t = 0 -> CZero [] t = 1 -> CSqrtHalf [] t = 2 -> COne

\* np.exp(1j * phi)
ExpI(p) == CASE p = 0 -> COne [] p = 1 -> CImag [] p = 2 -> CMinusOne [] p = 3 -> CMinusImag

\* Python's list[i], on a TLA+ sequence
At(list, i) == list[i + 1]

\* the lists of length len over S
Lists(S, len) == [1..len -> S]

-----------------------------------------------------------------------------
(* generate_multi_qubit_state *)

ValueError == "ValueError"

\* (mutant) only the theta list is measured
GenLengthsOk_ThetaOnly(n, th, ph) == ~(Len(th) # 2 ^ n - 1)

\* the two length tests that open the function
GenLengthsOk(n, th, ph) == ~(Len(th) # 2 ^ n - 1) /\ ~(Len(ph) # 2 ^ n - 1)

\* np.zeros(dim, dtype=complex)
Zeros(dim) == [j \in 0..(dim - 1) |-> CZero]

\* (mutant) the residual is multiplied by the cosine instead of the sine
GenLoopBody_CosResidual(fr, th, ph, i) ==
    LET a0 == CMul(fr.amplitude, CosHalf(At(th, i)))
        a1 == IF i > 0 THEN CMul(a0, ExpI(At(ph, i - 1))) ELSE a0
    IN  [state |-> [fr.state EXCEPT ![i] = a1],
         amplitude |-> CMul(fr.amplitude, CosHalf(At(th, i)))]

\* one pass of the for loop's body, at index i
GenLoopBody(fr, th, ph, i) ==
    LET a0 == CMul(fr.amplitude, CosHalf(At(th, i)))
        a1 == IF i > 0 THEN CMul(a0, ExpI(At(ph, i - 1))) ELSE a0
    IN  [state |-> [fr.state EXCEPT ![i] = a1],
         amplitude |-> CMul(fr.amplitude, SinHalf(At(th, i)))]

\* the statement after the loop; i is the loop variable's last value
GenLast(fr, ph, i) ==
    [fr EXCEPT !.state[i + 1] = CMul(fr.amplitude, ExpI(At(ph, i)))]

RECURSIVE GenLoop(_, _, _, _, _)
GenLoop(fr, th, ph, i, dim) ==
    IF i >= dim - 1 THEN fr ELSE GenLoop(GenLoopBody(fr, th, ph, i), th, ph, i + 1, dim)

generate_multi_qubit_state(n, th, ph) ==
    IF ~GenLengthsOk(n, th, ph) THEN ValueError
    ELSE LET dim == 2 ^ n
             fr == GenLoop([state |-> Zeros(dim), amplitude |-> COne], th, ph, 0, dim)
         IN  GenLast(fr, ph, dim - 2).state

\* The same function, statement by statement.
NoFrame == "none"

\* The valid parameter vectors drawn for an n-qubit object: up to two qubits
\* every pair of lists over the grid; beyond (7 or more angles of each kind)
\* every theta list with the four phi lists phi[j] = (j + c) mod 4.
ValidThetas(n) == Lists(ThetaGrid, 2 ^ n - 1)

ValidPhis(n) ==
    IF n <= 2 THEN Lists(PhiGrid, 2 ^ n - 1)
    ELSE {[j \in 1..(2 ^ n - 1) |-> (j + c) % 4] : c \in PhiGrid}

\* argument lengths tried for an n-qubit object: empty, one short, right, one long
GenLens(n) == {0, 2 ^ n - 2, 2 ^ n - 1, 2 ^ n}

ZeroList(len) == [j \in 1..len |-> 0]

\* A call's arguments: every valid pair of lists over the grid, and, for each
\* pair of lengths of which one at least is wrong, the lists of zeros (the
\* function reads no element before it raises).
GenCallInit ==
    /\ n_qubits \in 1..MaxQubits
    /\ \/ /\ thetas \in ValidThetas(n_qubits)
          /\ phis \in ValidPhis(n_qubits)
       \/ \E lt \in GenLens(n_qubits), lp \in GenLens(n_qubits) :
             /\ lt # 2 ^ n_qubits - 1 \/ lp # 2 ^ n_qubits - 1
             /\ thetas = ZeroList(lt)
             /\ phis = ZeroList(lp)
    /\ gen_pc = "entry"
    /\ idx = -1
    /\ amplitude = NoFrame
    /\ state = NoFrame

GenRaise ==
    /\ gen_pc = "entry"
    /\ ~GenLengthsOk(n_qubits, thetas, phis)
    /\ gen_pc' = "raised"
    /\ UNCHANGED <<thetas, phis, idx, amplitude, state>>

GenEnter ==
    /\ gen_pc = "entry"
    /\ GenLengthsOk(n_qubits, thetas, phis)
    /\ state' = Zeros(2 ^ n_qubits)
    /\ amplitude' = COne
    /\ gen_pc' = "loop"
    /\ UNCHANGED <<thetas, phis, idx>>

GenStep ==
    /\ gen_pc = "loop"
    /\ idx + 1 < 2 ^ n_qubits - 1
    /\ LET fr == GenLoopBody([state |-> state, amplitude |-> amplitude], thetas, phis, idx + 1)
       IN  /\ state' = fr.state
           /\ amplitude' = fr.amplitude
    /\ idx' = idx + 1
    /\ UNCHANGED <<thetas, phis, gen_pc>>

GenReturn ==
    /\ gen_pc = "loop"
    /\ ~(idx + 1 < 2 ^ n_qubits - 1)
    /\ state' = GenLast([state |-> state, amplitude |-> amplitude], phis, idx).state
    /\ gen_pc' = "returned"
    /\ UNCHANGED <<thetas, phis, idx, amplitude>>

GenIdle ==
    /\ thetas = <<>> /\ phis = <<>> /\ gen_pc = "idle"
    /\ idx = -1 /\ amplitude = NoFrame /\ state = NoFrame

-----------------------------------------------------------------------------
(* fidelity *)

\* the vectors of length len over the set S, indexed from 0 as numpy arrays are
Vectors(S, len) == [0..(len - 1) -> S]

VLen(v) == Cardinality(DOMAIN v)

\* np.dot(a, b): no conjugate
Dot(a, b) == CSum([j \in DOMAIN a |-> CMul(a[j], b[j])], 0, VLen(a) - 1)

\* np.vdot(a, b): the first argument is conjugated
VDot(a, b) == CSum([j \in DOMAIN a |-> CMul(CConj(a[j]), b[j])], 0, VLen(a) - 1)

\* (mutant) np.dot in place of np.vdot
fidelity_NoConj(s1, s2) ==
    IF VLen(s1) # VLen(s2) THEN ValueError ELSE CAbs2(Dot(s1, s2))

\* np.abs(np.vdot(state1, state2))**2; np.vdot raises on arrays of different sizes
fidelity(s1, s2) ==
    IF VLen(s1) # VLen(s2) THEN ValueError ELSE CAbs2(VDot(s1, s2))

\* entries of the vectors handed to fidelity: 0, 1, i, 1/sqrt2, (1+i)/2, -i/sqrt2
FidEntries ==
    {CZero, COne, CImag, CSqrtHalf, <<1, 0, 1, 0, 1>>, <<0, 0, 0, -1, 1>>}

FidCallInit ==
    /\ \E l1 \in 1..MaxVecLen, l2 \in 1..MaxVecLen :
          /\ state1 \in Vectors(FidEntries, l1)
          /\ state2 \in Vectors(FidEntries, l2)
          /\ l1 # l2 => /\ state1 = [j \in 0..(l1 - 1) |-> COne]
                        /\ state2 = [j \in 0..(l2 - 1) |-> COne]
    /\ fid_pc = "entry"
    /\ fid_ret = NoFrame

FidReturn ==
    /\ fid_pc = "entry"
    /\ fidelity(state1, state2) # ValueError
    /\ fid_ret' = fidelity(state1, state2)
    /\ fid_pc' = "returned"
    /\ UNCHANGED <<state1, state2>>

FidRaise ==
    /\ fid_pc = "entry"
    /\ fidelity(state1, state2) = ValueError
    /\ fid_pc' = "raised"
    /\ UNCHANGED <<state1, state2, fid_ret>>

FidIdle ==
    /\ state1 = NoFrame /\ state2 = NoFrame /\ fid_pc = "idle" /\ fid_ret = NoFrame

-----------------------------------------------------------------------------
(* partial_trace_density, bloch_vector_from_rho, plot_multi_bloch *)

\* [(i >> k) & 1 for k in range(n)]: bit k of i at position k
BitsLsbFirst(i, n) == [k \in 0..(n - 1) |-> (i \div (2 ^ k)) % 2]

\* (mutant) the list is not reversed
Reversed_Not(list, n) == list

\* list[::-1]
Reversed(list, n) == [q \in 0..(n - 1) |-> list[n - 1 - q]]

\* i_bits, j_bits of the loop body
Bits(i, n) == Reversed(BitsLsbFirst(i, n), n)

\* np.zeros((d, d), dtype=complex)
ZeroMatrix(d) == [i \in 0..(d - 1) |-> [j \in 0..(d - 1) |-> CZero]]

\* (mutant) the row's bit indexes the reduced matrix twice
PtBody_RowBitTwice(red, rh, n, target, i, j) ==
    LET i_bits == Bits(i, n)
        j_bits == Bits(j, n)
    IN  IF \A k \in 0..(n - 1) : k # target => i_bits[k] = j_bits[k]
        THEN [red EXCEPT ![i_bits[target]][i_bits[target]] = CAdd(@, rh[i][j])]
        ELSE red

\* the loop body at (i, j): reduced_rho[...] += rho[i, j] when every bit but
\* the target's agrees
PtBody(red, rh, n, target, i, j) ==
    LET i_bits == Bits(i, n)
        j_bits == Bits(j, n)
    IN  IF \A k \in 0..(n - 1) : k # target => i_bits[k] = j_bits[k]
        THEN [red EXCEPT ![i_bits[target]][j_bits[target]] = CAdd(@, rh[i][j])]
        ELSE red

\* the two nested loops, p = i * dim + j counting the passes
RECURSIVE PtLoop(_, _, _, _, _)
PtLoop(red, rh, n, target, p) ==
    LET dim == 2 ^ n
    IN  IF p >= dim * dim THEN red
        ELSE PtLoop(PtBody(red, rh, n, target, p \div dim, p % dim), rh, n, target, p + 1)

partial_trace_density(n, rh, target) == PtLoop(ZeroMatrix(2), rh, n, target, 0)

\* x = 2 Re rho[0,1], y = 2 Im rho[1,0], z = Re(rho[0,0] - rho[1,1])
bloch_vector_from_rho(rh) ==
    <<CMul(CInt(2), CRe(rh[0][1])),
      CMul(CInt(2), CIm(rh[1][0])),
      CRe(CSub(rh[0][0], rh[1][1]))>>

\* np.outer(input_state, input_state.conj())
Outer(v) == [i \in DOMAIN v |-> [j \in DOMAIN v |-> CMul(v[i], CConj(v[j]))]]

\* plot_multi_bloch(input_state) of an n-qubit object, on a state vector built
\* from a valid parameter vector; the figure itself is not modelled.
\* Beyond two qubits the vectors drawn are the computational-basis states (theta
\* in {0, pi}) and the uniform superposition-like vector of all theta = pi/2.
BlochThetas(n) ==
    IF n <= 2 THEN ValidThetas(n)
    ELSE Lists({0, 2}, 2 ^ n - 1) \cup {[j \in 1..(2 ^ n - 1) |-> 1]}

BlochPhis(n) ==
    IF n <= 2 THEN ValidPhis(n) ELSE {[j \in 1..(2 ^ n - 1) |-> 1]}

BlochCallInit ==
    /\ n_qubits \in 1..MaxQubits
    /\ \E th \in BlochThetas(n_qubits), ph \in BlochPhis(n_qubits) :
          /\ input_state = generate_multi_qubit_state(n_qubits, th, ph)
          /\ rho = Outer(generate_multi_qubit_state(n_qubits, th, ph))
    /\ qubit = -1
    /\ reduced_rho = NoFrame
    /\ bloch_vec = NoFrame
    /\ bloch_pc = "loop"

\* one pass of "for qubit in range(self.n_qubits)"
BlochStep ==
    /\ bloch_pc = "loop"
    /\ qubit + 1 < n_qubits
    /\ qubit' = qubit + 1
    /\ reduced_rho' = partial_trace_density(n_qubits, rho, qubit + 1)
    /\ bloch_vec' = bloch_vector_from_rho(partial_trace_density(n_qubits, rho, qubit + 1))
    /\ UNCHANGED <<input_state, rho, bloch_pc>>

BlochReturn ==
    /\ bloch_pc = "loop"
    /\ ~(qubit + 1 < n_qubits)
    /\ bloch_pc' = "returned"
    /\ UNCHANGED <<input_state, rho, qubit, reduced_rho, bloch_vec>>

BlochIdle ==
    /\ input_state = NoFrame /\ rho = NoFrame /\ qubit = -1
    /\ reduced_rho = NoFrame /\ bloch_vec = NoFrame /\ bloch_pc = "idle"

\* parameter vectors of the states that are sampled or traced: every angle the same
UniformThetas(n) == {[j \in 1..(2 ^ n - 1) |-> t] : t \in ThetaGrid}
UniformPhis(n) == {[j \in 1..(2 ^ n - 1) |-> q] : q \in PhiGrid}

-----------------------------------------------------------------------------
(* partial_trace_density, called on a matrix, one row of the outer loop at a time *)

\* the inner loop of row i, from column j on
RECURSIVE PtRow(_, _, _, _, _, _)
PtRow(red, rh, n, target, i, j) ==
    IF j >= 2 ^ n THEN red
    ELSE PtRow(PtBody(red, rh, n, target, i, j), rh, n, target, i, j + 1)

\* c1 * A + c2 * B
Combine(c1, A, c2, B) ==
    [i \in DOMAIN A |-> [j \in DOMAIN A |-> CAdd(CMul(c1, A[i][j]), CMul(c2, B[i][j]))]]

\* the computational-basis vector of index b
BasisVector(n, b) == [i \in 0..(2 ^ n - 1) |-> IF i = b THEN COne ELSE CZero]

\* state vectors the matrices are built from
PtVectors(n) ==
    {generate_multi_qubit_state(n, th, ph) : th \in UniformThetas(n), ph \in UniformPhis(n)}
    \cup {BasisVector(n, b) : b \in 0..(2 ^ n - 1)}

\* weights of two pure states: one pure state, an even mixture, a Hermitian
\* unit-trace matrix that is not positive, and a matrix that is neither
\* Hermitian nor of unit trace
PtWeights == {<<COne, CZero>>, <<CHalf(COne), CHalf(COne)>>, <<CInt(2), CMinusOne>>,
              <<CImag, COne>>}

\* the matrices handed to partial_trace_density
PtMatrices(n) ==
    {Combine(w[1], Outer(a), w[2], Outer(b)) : w \in PtWeights, a \in PtVectors(n), b \in PtVectors(n)}

PtCallInit ==
    /\ n_qubits \in 1..MaxQubits
    /\ pt_rho \in PtMatrices(n_qubits)
    /\ target_qubit \in 0..(n_qubits - 1)
    /\ pt_i = 0
    /\ pt_reduced_rho = ZeroMatrix(2)
    /\ pt_pc = "loop"

\* one pass of "for i in range(dim)": the whole inner loop of row pt_i
PtStep ==
    /\ pt_pc = "loop"
    /\ pt_i < 2 ^ n_qubits
    /\ pt_reduced_rho' = PtRow(pt_reduced_rho, pt_rho, n_qubits, target_qubit, pt_i, 0)
    /\ pt_i' = pt_i + 1
    /\ UNCHANGED <<pt_rho, target_qubit, pt_pc>>

PtReturn ==
    /\ pt_pc = "loop"
    /\ ~(pt_i < 2 ^ n_qubits)
    /\ pt_pc' = "returned"
    /\ UNCHANGED <<pt_rho, target_qubit, pt_i, pt_reduced_rho>>

PtIdle ==
    /\ pt_rho = NoFrame /\ target_qubit = -1 /\ pt_i = 0
    /\ pt_reduced_rho = NoFrame /\ pt_pc = "idle"

-----------------------------------------------------------------------------
(* meas_prob, generate_samples *)

pauli_letters == <<"I", "X", "Y", "Z">>

\* self.pauli_dict
pauli_dict(op) ==
    CASE op = "I" -> <<<<COne, CZero>>, <<CZero, COne>>>>
      [] op = "X" -> <<<<CZero, COne>>, <<COne, CZero>>>>
      [] op = "Y" -> <<<<CZero, CMinusImag>>, <<CImag, CZero>>>>
      [] op = "Z" -> <<<<COne, CZero>>, <<CZero, CMinusOne>>>>

\* a 2x2 matrix of pauli_dict, indexed from 0
Pauli(op) == [i \in 0..1 |-> [j \in 0..1 |-> pauli_dict(op)[i + 1][j + 1]]]

\* np.kron(A, B)
Kron(A, B) ==
    LET dA == VLen(A)
        dB == VLen(B)
    IN  [i \in 0..(dA * dB - 1) |-> [j \in 0..(dA * dB - 1) |->
            CMul(A[i \div dB][j \div dB], B[i % dB][j % dB])]]

\* reduce(np.kron, meas_op): folds from the left, ops a non-empty list
RECURSIVE ReduceKron(_, _)
ReduceKron(ops, len) ==
    IF len = 1 THEN Pauli(ops[1])
    ELSE Kron(ReduceKron(ops, len - 1), Pauli(ops[len]))

\* (np.eye(dim) + M)/2
ProjPlus(M, dim) ==
    [i \in 0..(dim - 1) |-> [j \in 0..(dim - 1) |->
        CHalf(CAdd(IF i = j THEN COne ELSE CZero, M[i][j]))]]

\* (np.conj(state).T @ proj_M) @ state
QuadForm(st, P) ==
    LET dim == VLen(st)
        row == [j \in 0..(dim - 1) |->
                   CSum([i \in 0..(dim - 1) |-> CMul(CConj(st[i]), P[i][j])], 0, dim - 1)]
    IN  CSum([j \in 0..(dim - 1) |-> CMul(row[j], st[j])], 0, dim - 1)

meas_prob(st, meas_op) ==
    CRe(QuadForm(st, ProjPlus(ReduceKron(meas_op, Len(meas_op)), VLen(st))))

\* Python's min of a list: ValueError on the empty list
RECURSIVE PyMinFrom(_, _, _)
PyMinFrom(list, j, m) ==
    IF j > Len(list) THEN m
    ELSE PyMinFrom(list, j + 1, IF list[j] < m THEN list[j] ELSE m)

\* (mutant) the first element, whatever the others are
PyMin_Head(list) == IF Len(list) = 0 THEN ValueError ELSE list[1]

PyMin(list) == IF Len(list) = 0 THEN ValueError ELSE PyMinFrom(list, 2, list[1])

\* (mutant) the last branch is an else: an I symbol counts as a Z
ShotsAppend_ElseZ(list, sym, sx, sy, sz) ==
    IF sym = "X" THEN Append(list, sx)
    ELSE IF sym = "Y" THEN Append(list, sy)
    ELSE Append(list, sz)

\* the if / elif / elif of the loop body
ShotsAppend(list, sym, sx, sy, sz) ==
    IF sym = "X" THEN Append(list, sx)
    ELSE IF sym = "Y" THEN Append(list, sy)
    ELSE IF sym = "Z" THEN Append(list, sz)
    ELSE list

\* for q_idx in range(self.n_qubits)
RECURSIVE ShotsLoop(_, _, _, _, _, _, _)
ShotsLoop(list, meas_op, q_idx, n, sx, sy, sz) ==
    IF q_idx >= n THEN list
    ELSE ShotsLoop(ShotsAppend(list, At(meas_op, q_idx), sx, sy, sz),
                   meas_op, q_idx + 1, n, sx, sy, sz)

ShotsList(meas_op, n, sx, sy, sz) == ShotsLoop(<<>>, meas_op, 0, n, sx, sy, sz)

\* The double prob_plus1 stands for when the exact probability is p.  The
\* amplitudes are doubles: cos(pi/2) is 6.1e-17 and cos(pi/4), sin(pi/4)
\* differ in the last place, so a probability that is exactly 0 may come
\* out as a tiny positive double and one that is exactly 1 as the double
\* just below 1.  Only the state (1, 0, ..., 0) is free of rounding.
FloatProbs(st, p) ==
    IF p = CZero THEN (IF st[0] = COne THEN {"zero"} ELSE {"zero", "tiny"})
    ELSE IF p = COne THEN (IF st[0] = COne THEN {"one"} ELSE {"one", "below-one"})
    ELSE {"inside"}

\* np.random.choice([+1, -1], size=n_shots, p=[p, 1 - p]): every array the
\* generator can return for a double f of FloatProbs: +1 needs f > 0, -1
\* needs f < 1
Choice(size, st, p) ==
    {a \in [1..size -> {1, -1}] :
        \E f \in FloatProbs(st, p) :
            \A j \in 1..size : (a[j] = 1 => f # "zero") /\ (a[j] = -1 => f # "one")}

\* the value generate_multi_qubit_state leaves in its locals on return
GenDone(n, th, ph) ==
    /\ thetas = th /\ phis = ph /\ gen_pc = "returned"
    /\ idx = 2 ^ n - 2
    /\ amplitude = GenLoop([state |-> Zeros(2 ^ n), amplitude |-> COne], th, ph, 0, 2 ^ n).amplitude
    /\ state = generate_multi_qubit_state(n, th, ph)

\* generate_samples(state, meas_op_string) on an object with any shot counts,
\* state being a vector generate_multi_qubit_state returned
SamplesCallInit ==
    /\ n_qubits \in 1..MaxQubits
    /\ n_shotsX \in 1..MaxShots
    /\ n_shotsY \in 1..MaxShots
    /\ n_shotsZ \in 1..MaxShots
    /\ \E th \in UniformThetas(n_qubits), ph \in UniformPhis(n_qubits) : GenDone(n_qubits, th, ph)
    /\ meas_op_string \in Lists({"I", "X", "Y", "Z"}, n_qubits)
    /\ shots_list = <<>>
    /\ n_shots = NoFrame
    /\ prob_plus1 = NoFrame
    /\ samples = NoFrame
    /\ samp_pc = "entry"

\* min(shots_list) raises on the empty list (the all-I setting)
SamplesRaise ==
    /\ samp_pc = "entry"
    /\ Len(ShotsList(meas_op_string, n_qubits, n_shotsX, n_shotsY, n_shotsZ)) = 0
    /\ shots_list' = ShotsList(meas_op_string, n_qubits, n_shotsX, n_shotsY, n_shotsZ)
    /\ samp_pc' = "raised"
    /\ UNCHANGED <<meas_op_string, n_shots, prob_plus1, samples>>

SamplesReturn ==
    /\ samp_pc = "entry"
    /\ Len(ShotsList(meas_op_string, n_qubits, n_shotsX, n_shotsY, n_shotsZ)) # 0
    /\ shots_list' = ShotsList(meas_op_string, n_qubits, n_shotsX, n_shotsY, n_shotsZ)
    /\ n_shots' = PyMin(ShotsList(meas_op_string, n_qubits, n_shotsX, n_shotsY, n_shotsZ))
    /\ prob_plus1' = meas_prob(state, meas_op_string)
    /\ samples' \in Choice(n_shots', state, prob_plus1')
    /\ samp_pc' = "returned"
    /\ UNCHANGED meas_op_string

SamplesIdle ==
    /\ meas_op_string = <<>> /\ shots_list = <<>> /\ n_shots = NoFrame
    /\ prob_plus1 = NoFrame /\ samples = NoFrame /\ samp_pc = "idle"

-----------------------------------------------------------------------------
(* estimate_parameters *)

\* range(50)
NumAttempts == 50

\* np.concatenate([thetas, phis])
Concatenate(th, ph) == th \o ph

\* params[:self.n_theta_phi] and params[self.n_theta_phi:]
ThetasOf(params, n) == SubSeq(params, 1, 2 ^ n - 1)
PhisOf(params, n) == SubSeq(params, 2 ^ n, Len(params))

\* the state log_likelihood builds from params before it reads the samples
StateOfParams(params, n) ==
    generate_multi_qubit_state(n, ThetasOf(params, n), PhisOf(params, n))

\* Parameter vectors at which an attempt of the optimiser may end: all angles
\* 0; all theta 0 and all phi pi/2 (another vector for the same state, the
\* first basis state); all theta pi/2 and all phi 0.
Candidates(n) ==
    {Concatenate([j \in 1..(2 ^ n - 1) |-> 0], [j \in 1..(2 ^ n - 1) |-> 0]),
     Concatenate([j \in 1..(2 ^ n - 1) |-> 0], [j \in 1..(2 ^ n - 1) |-> 1]),
     Concatenate([j \in 1..(2 ^ n - 1) |-> 1], [j \in 1..(2 ^ n - 1) |-> 0])}

CandidateStates(n) == {StateOfParams(x, n) : x \in Candidates(n)}

\* the objective values a state may have: levels of -log L above its least
\* value on the candidate states
ObjVals == {0, 1}

\* the objectives of a call, one per outcome of the sampling
Objectives(n) ==
    {f \in [CandidateStates(n) -> ObjVals] : \E st \in CandidateStates(n) : f[st] = 0}

\* log_likelihood(params, samples) for the samples of the call: a function of
\* the state built from params; `objective` holds its value on every
\* candidate state
log_likelihood(obj, params, n) == obj[StateOfParams(params, n)]

\* (mutant) the index of the last occurrence
RECURSIVE PyIndex_Last(_, _)
PyIndex_Last(list, v) ==
    IF list[Len(list)] = v THEN Len(list) - 1
    ELSE PyIndex_Last(SubSeq(list, 1, Len(list) - 1), v)

\* list.index(v), v an element of list: the index of the first occurrence
RECURSIVE PyIndexFrom(_, _, _)
PyIndexFrom(list, v, j) ==
    IF At(list, j) = v THEN j ELSE PyIndexFrom(list, v, j + 1)

PyIndex(list, v) == PyIndexFrom(list, v, 0)

\* result = min(opt_val); index = opt_val.index(result); opt_params[index]
SelectBest(vals, params) == At(params, PyIndex(vals, PyMin(vals)))

\* how many attempts after the first returned another vector than the first
Varied(params) == Cardinality({j \in 2..Len(params) : params[j] # params[1]})

EstCallInit ==
    /\ objective \in Objectives(n_qubits)
    /\ opt_val = <<>>
    /\ opt_params = <<>>
    /\ est_ret = NoFrame
    /\ converged_attempts = 0
    /\ raised_attempts = 0
    /\ est_pc = "loop"

\* one pass of the loop: minimize returns result.fun and result.x
EstAttempt ==
    /\ est_pc = "loop"
    /\ Len(opt_val) < NumAttempts
    /\ \E x \in Candidates(n_qubits) :
          /\ IF Len(opt_params) = 0 THEN TRUE
             ELSE IF x = opt_params[1] THEN TRUE
             ELSE Varied(opt_params) < MaxVaried
          /\ opt_val' = Append(opt_val, log_likelihood(objective, x, n_qubits))
          /\ opt_params' = Append(opt_params, x)
    /\ converged_attempts' = converged_attempts + 1
    /\ UNCHANGED <<objective, est_ret, raised_attempts, est_pc>>

\* (mutant) an attempt that raises is skipped and the loop goes on
EstAttemptRaises_Swallowed ==
    /\ est_pc = "loop"
    /\ Len(opt_val) < NumAttempts
    /\ raised_attempts = 0
    /\ raised_attempts' = raised_attempts + 1
    /\ UNCHANGED <<objective, opt_val, opt_params, est_ret, converged_attempts, est_pc>>

\* one pass of the loop in which minimize raises: nothing in the function
\* catches it, the call ends with the exception and its locals are lost
EstAttemptRaises ==
    /\ est_pc = "loop"
    /\ Len(opt_val) < NumAttempts
    /\ raised_attempts' = raised_attempts + 1
    /\ opt_val' = <<>>
    /\ opt_params' = <<>>
    /\ est_pc' = "raised"
    /\ UNCHANGED <<objective, est_ret, converged_attempts>>

\* the three statements after the loop
EstReturn ==
    /\ est_pc = "loop"
    /\ ~(Len(opt_val) < NumAttempts)
    /\ est_ret' = SelectBest(opt_val, opt_params)
    /\ est_pc' = "returned"
    /\ UNCHANGED <<objective, opt_val, opt_params, converged_attempts, raised_attempts>>

EstIdle ==
    /\ objective = NoFrame /\ opt_val = <<>> /\ opt_params = <<>>
    /\ est_ret = NoFrame /\ converged_attempts = 0 /\ raised_attempts = 0
    /\ est_pc = "idle"

\* A call that has returned, its attempts' results in the order of the loop;
\* the attempts that differ from the first are among the MaxVaried after it.
EstDoneInit ==
    /\ objective \in Objectives(n_qubits)
    /\ \E first \in Candidates(n_qubits), others \in [2..(1 + MaxVaried) -> Candidates(n_qubits)] :
          opt_params = [j \in 1..NumAttempts |->
                           IF j \in 2..(1 + MaxVaried) THEN others[j] ELSE first]
    /\ opt_val = [j \in 1..NumAttempts |-> log_likelihood(objective, opt_params[j], n_qubits)]
    /\ est_ret = SelectBest(opt_val, opt_params)
    /\ converged_attempts = NumAttempts
    /\ raised_attempts = 0
    /\ est_pc = "returned"

\* The same results returned by the attempts in another order (another
\* execution of the loop), and what the function returns then.
OrdInit ==
    /\ ord_val = opt_val
    /\ ord_params = opt_params
    /\ ord_ret = est_ret

Swap(list, i) == [list EXCEPT ![i] = list[i + 1], ![i + 1] = list[i]]

\* two neighbouring attempts, of different results, exchange them
Reorder ==
    \E i \in 1..(NumAttempts - 1) :
        /\ ord_params[i] # ord_params[i + 1]
        /\ ord_val' = Swap(ord_val, i)
        /\ ord_params' = Swap(ord_params, i)
        /\ ord_ret' = SelectBest(ord_val', ord_params')

OrdIdle == ord_val = <<>> /\ ord_params = <<>> /\ ord_ret = NoFrame

-----------------------------------------------------------------------------
(* The notebook's widgets and their handlers *)

\* n_qubits_slider = IntSlider(value=2, min=1, max=4, step=1)
QubitsDefault == 2
QubitsMin == 1
QubitsMax == 4

\* shots sliders: IntSlider(value=1000, min=100, max=5000, step=100)
ShotsDefault == 1000
ShotsMin == 100

\* Slider angles are rational multiples of pi, <<numerator, denominator>>:
\* FloatSlider(value=np.pi/4, min=0, ...) and FloatSlider(value=np.pi, min=0, ...)
ThetaDefault == <<1, 4>>
PhiDefault == <<1, 1>>
AngleMin == <<0, 1>>

\* the lines a handler prints into output_box
GeneratedLine(nt, np) == <<"Generated sliders", nt, np>>
RunningLine(n) == <<"Running tomography", n>>
ThetaValuesLine(len) == <<"Theta values", len>>
PhiValuesLine(len) == <<"Phi values", len>>
ErrorLine == <<"Error: Number of angles does not match 2^n - 1">>
CompleteLine == <<"Tomography complete">>
FidelityLine == <<"Fidelity">>
TracebackLine(exc) == <<"Traceback", exc>>
\* the figures run_tomography shows
PlotLines == << <<"plot_thetas_phis">>, <<"plot_multi_bloch", "True State">>,
                <<"plot_multi_bloch", "Reconstructed State">> >>

\* create_theta_phi_sliders(n_qubits): both lists, at their default values
DefaultSliders(n, value) == [i \in 1..(2 ^ n - 1) |-> value]

\* (mutant) the handler does not test the lengths
RunLengthsOk_Always(n, th, ph) == TRUE

\* the test of the Run handler, negated
RunLengthsOk(n, th, ph) == ~(Len(th) # 2 ^ n - 1 \/ Len(ph) # 2 ^ n - 1)

\* the calls of generate_samples made by run_tomography on n qubits: one for
\* each setting of itertools.product(pauli_letters, repeat=n) but all-I
SettingsSampled(n) == 4 ^ n - 1

UiInit ==
    /\ n_qubits_slider = QubitsDefault
    /\ shotsX_slider = ShotsDefault
    /\ shotsY_slider = ShotsDefault
    /\ shotsZ_slider = ShotsDefault
    /\ theta_sliders = <<>>
    /\ phi_sliders = <<>>
    /\ output_box = <<>>
    /\ samples_calls = 0 /\ estimate_calls = 0 /\ fidelity_calls = 0
    /\ last_event = "none"
    /\ events = 0

UiIdle == UiInit

\* the user moves the qubit-count slider
SlideQubits ==
    /\ events < MaxEvents
    /\ \E v \in QubitsMin..QubitsMax :
          /\ v # n_qubits_slider
          /\ n_qubits_slider' = v
    /\ last_event' = "slide"
    /\ events' = events + 1
    /\ UNCHANGED <<shotsX_slider, shotsY_slider, shotsZ_slider, theta_sliders, phi_sliders,
                   output_box, samples_calls, estimate_calls, fidelity_calls>>

\* the user moves one of the shots sliders, to its least value or back
SlideShots ==
    /\ events < MaxEvents
    /\ \E axis \in {"X", "Y", "Z"}, v \in {ShotsMin, ShotsDefault} :
          /\ shotsX_slider' = IF axis = "X" THEN v ELSE shotsX_slider
          /\ shotsY_slider' = IF axis = "Y" THEN v ELSE shotsY_slider
          /\ shotsZ_slider' = IF axis = "Z" THEN v ELSE shotsZ_slider
          /\ <<shotsX_slider', shotsY_slider', shotsZ_slider'>>
                # <<shotsX_slider, shotsY_slider, shotsZ_slider>>
    /\ last_event' = "slide"
    /\ events' = events + 1
    /\ UNCHANGED <<n_qubits_slider, theta_sliders, phi_sliders,
                   output_box, samples_calls, estimate_calls, fidelity_calls>>

\* the user moves one of the theta sliders, to its least value or back
SlideTheta ==
    /\ events < MaxEvents
    /\ \E i \in DOMAIN theta_sliders, v \in {AngleMin, ThetaDefault} :
          /\ v # theta_sliders[i]
          /\ theta_sliders' = [theta_sliders EXCEPT ![i] = v]
    /\ last_event' = "slide"
    /\ events' = events + 1
    /\ UNCHANGED <<n_qubits_slider, shotsX_slider, shotsY_slider, shotsZ_slider, phi_sliders,
                   output_box, samples_calls, estimate_calls, fidelity_calls>>

\* the user moves one of the phi sliders, to its least value or back
SlidePhi ==
    /\ events < MaxEvents
    /\ \E i \in DOMAIN phi_sliders, v \in {AngleMin, PhiDefault} :
          /\ v # phi_sliders[i]
          /\ phi_sliders' = [phi_sliders EXCEPT ![i] = v]
    /\ last_event' = "slide"
    /\ events' = events + 1
    /\ UNCHANGED <<n_qubits_slider, shotsX_slider, shotsY_slider, shotsZ_slider, theta_sliders,
                   output_box, samples_calls, estimate_calls, fidelity_calls>>

\* click on 'Set theta and phi'
on_generate_angles_clicked ==
    /\ events < MaxEvents
    /\ theta_sliders' = DefaultSliders(n_qubits_slider, ThetaDefault)
    /\ phi_sliders' = DefaultSliders(n_qubits_slider, PhiDefault)
    /\ output_box' = <<GeneratedLine(Len(theta_sliders'), Len(phi_sliders'))>>
    /\ samples_calls' = 0 /\ estimate_calls' = 0 /\ fidelity_calls' = 0
    /\ last_event' = "generate"
    /\ events' = events + 1
    /\ UNCHANGED <<n_qubits_slider, shotsX_slider, shotsY_slider, shotsZ_slider>>

\* click on 'Run Experiment'.  The QuantumStateTomography object is a local of
\* the handler; the three counters record the calls the handler made on it.
\* In run_tomography the estimate either returns or raises (nothing catches
\* an exception of minimize), and an exception ends the handler.
on_run_button_clicked ==
    /\ events < MaxEvents
    /\ LET n == n_qubits_slider
           slider_thetas == [i \in DOMAIN theta_sliders |-> theta_sliders[i]]
           slider_phis == [i \in DOMAIN phi_sliders |-> phi_sliders[i]]
           printed == <<RunningLine(n), ThetaValuesLine(Len(slider_thetas)),
                        PhiValuesLine(Len(slider_phis))>>
       IN  IF ~RunLengthsOk(n, slider_thetas, slider_phis)
             THEN /\ output_box' = Append(printed, ErrorLine)
                  /\ samples_calls' = 0 /\ estimate_calls' = 0 /\ fidelity_calls' = 0
           ELSE IF ~GenLengthsOk(n, slider_thetas, slider_phis)
             THEN /\ output_box' = Append(printed, TracebackLine(ValueError))
                  /\ samples_calls' = 0 /\ estimate_calls' = 0 /\ fidelity_calls' = 0
           ELSE \E estimate_raises \in BOOLEAN :
                  /\ samples_calls' = SettingsSampled(n)
                  /\ estimate_calls' = 1
                  /\ IF estimate_raises
                       THEN /\ fidelity_calls' = 0
                            /\ output_box' = Append(printed, TracebackLine("minimize"))
                       ELSE /\ fidelity_calls' = 1
                            /\ output_box' = printed \o PlotLines \o <<CompleteLine, FidelityLine>>
    /\ last_event' = "run"
    /\ events' = events + 1
    /\ UNCHANGED <<n_qubits_slider, shotsX_slider, shotsY_slider, shotsZ_slider,
                   theta_sliders, phi_sliders>>

-----------------------------------------------------------------------------
(* One Run click past the length test: the constructor, the four assignments
   of the handler, run_tomography *)

\* The uniform numbers the generator hands out, by position in its stream:
\* "low" is 0.0, "high" the largest double below 1.  A stream is all low or alternates.
RngPatterns == {"low", "low-high", "high-low"}

Uniform(pattern, t) ==
    CASE pattern = "low" -> "low"
      [] pattern = "low-high" -> IF t % 2 = 0 THEN "low" ELSE "high"
      [] pattern = "high-low" -> IF t % 2 = 0 THEN "high" ELSE "low"

\* np.random.choice([+1, -1], p=[f, 1 - f]) on the uniform number u, f a
\* double of FloatProbs: the first value when u < f
Outcome(u, f) ==
    IF u = "low" THEN (IF f # "zero" THEN 1 ELSE -1)
    ELSE (IF f = "one" THEN 1 ELSE -1)

\* np.random.choice([+1, -1], size=size, p=[f, 1 - f]) from position pos of the stream
Draw(pattern, pos, size, f) == [j \in 1..size |-> Outcome(Uniform(pattern, pos + j - 1), f)]

\* the k-th tuple of itertools.product(self.pauli_letters, repeat=n)
\* (the last symbol varies fastest; built symbol by symbol from the right)
RECURSIVE SettingAt(_, _)
SettingAt(n, k) ==
    IF n = 0 THEN <<>>
    ELSE Append(SettingAt(n - 1, k \div 4), pauli_letters[(k % 4) + 1])

\* the tuples of itertools.product(self.pauli_letters, repeat=n)
Settings(n) == Lists({"I", "X", "Y", "Z"}, n)

\* (mutant) no setting is taken for the all-I one
IsAllI_Never(setting, n) == FALSE

\* setting == ('I',) * self.n_qubits
IsAllI(setting, n) == setting = [q \in 1..n |-> "I"]

\* a dict with no entry, and d[key] = value
EmptyDict == [key \in {} |-> <<>>]
DictPut(d, key, value) == [k \in (DOMAIN d) \cup {key} |-> IF k = key THEN value ELSE d[k]]

\* np.sum(array == v)
CountOf(array, v) == Cardinality({j \in DOMAIN array : array[j] = v})

\* the angles the constructor may draw
CtorThetas(n) == {[j \in 1..(2 ^ n - 1) |-> t] : t \in {1, 2}}
CtorPhis(n) == {[j \in 1..(2 ^ n - 1) |-> 3]}

KeyError == "KeyError"

\* The slider values and generator streams of a click: up to two qubits every
\* uniform list over the grid and every stream; beyond (63 or more settings
\* a run) theta = pi/2, phi = pi/2 and the alternating stream.
RunThetas(n) ==
    IF n <= 2 THEN UniformThetas(n) ELSE {[j \in 1..(2 ^ n - 1) |-> 1]}

RunPhis(n) ==
    IF n <= 2 THEN UniformPhis(n) ELSE {[j \in 1..(2 ^ n - 1) |-> 1]}

RunPatterns(n) == IF n <= 2 THEN RngPatterns ELSE {"low-high"}

RunIdle ==
    /\ supplied_thetas = <<>> /\ supplied_phis = <<>>
    /\ true_thetas = NoFrame /\ true_phis = NoFrame /\ true_params = NoFrame
    /\ n_theta_phi = 0 /\ true_state = NoFrame /\ ctor_state = NoFrame
    /\ rng = "low" /\ rng_pos = 0
    /\ rt_samples = EmptyDict /\ rt_pos = 0 /\ sampled_state = NoFrame /\ sampled_prob = NoFrame
    /\ ll_pos = 0 /\ ll_reads = {} /\ ll_counts = EmptyDict
    /\ est_params = NoFrame /\ reconstructed_state = NoFrame /\ fid = NoFrame
    /\ run_pc = "idle"

\* the handler has read the sliders and passed its length test
RunClickInit ==
    /\ n_qubits \in 1..MaxQubits
    /\ n_shotsX \in 1..MaxShots
    /\ n_shotsY \in 1..MaxShots
    /\ n_shotsZ \in 1..MaxShots
    /\ supplied_thetas \in RunThetas(n_qubits)
    /\ supplied_phis \in RunPhis(n_qubits)
    /\ true_thetas = NoFrame /\ true_phis = NoFrame /\ true_params = NoFrame
    /\ n_theta_phi = 0 /\ true_state = NoFrame /\ ctor_state = NoFrame
    /\ rng \in RunPatterns(n_qubits) /\ rng_pos = 0
    /\ rt_samples = EmptyDict /\ rt_pos = 0 /\ sampled_state = NoFrame /\ sampled_prob = NoFrame
    /\ ll_pos = 0 /\ ll_reads = {} /\ ll_counts = EmptyDict
    /\ est_params = NoFrame /\ reconstructed_state = NoFrame /\ fid = NoFrame
    /\ run_pc = "checked"

\* qtomo = QuantumStateTomography(...): random true parameters and their state
RunConstruct ==
    /\ run_pc = "checked"
    /\ \E th \in CtorThetas(n_qubits), ph \in CtorPhis(n_qubits) :
          /\ true_thetas' = th
          /\ true_phis' = ph
          /\ true_params' = Concatenate(th, ph)
          /\ n_theta_phi' = Len(th)
          /\ true_state' = generate_multi_qubit_state(n_qubits, th, ph)
          /\ ctor_state' = generate_multi_qubit_state(n_qubits, th, ph)
    /\ run_pc' = "constructed"
    /\ UNCHANGED <<supplied_thetas, supplied_phis, rng, rng_pos, rt_samples, rt_pos,
                   sampled_state, sampled_prob, ll_pos, ll_reads, ll_counts, est_params,
                   reconstructed_state, fid>>

\* (mutant) the handler assigns the angles and the parameter vector but
\* leaves the state the constructor computed
RunOverride_KeepsCtorState ==
    /\ run_pc = "constructed"
    /\ true_thetas' = supplied_thetas
    /\ true_phis' = supplied_phis
    /\ true_params' = Concatenate(supplied_thetas, supplied_phis)
    /\ run_pc' = "sampling"
    /\ UNCHANGED <<supplied_thetas, supplied_phis, n_theta_phi, true_state, ctor_state, rng, rng_pos,
                   rt_samples, rt_pos, sampled_state, sampled_prob, ll_pos, ll_reads, ll_counts,
                   est_params, reconstructed_state, fid>>

\* the four assignments of the handler to the object's fields
RunOverride ==
    /\ run_pc = "constructed"
    /\ true_thetas' = supplied_thetas
    /\ true_phis' = supplied_phis
    /\ true_params' = Concatenate(supplied_thetas, supplied_phis)
    /\ true_state' = generate_multi_qubit_state(n_qubits, supplied_thetas, supplied_phis)
    /\ run_pc' = "sampling"
    /\ UNCHANGED <<supplied_thetas, supplied_phis, n_theta_phi, ctor_state, rng, rng_pos,
                   rt_samples, rt_pos, sampled_state, sampled_prob, ll_pos, ll_reads, ll_counts,
                   est_params, reconstructed_state, fid>>

\* run_tomography: one pass of the loop over the settings; generate_samples
\* raises on a setting without X, Y or Z
RunSample ==
    /\ run_pc = "sampling"
    /\ rt_pos < 4 ^ n_qubits
    /\ \E setting \in Settings(n_qubits) :
          /\ setting = SettingAt(n_qubits, rt_pos)
          /\ IF IsAllI(setting, n_qubits)
               THEN /\ rt_pos' = rt_pos + 1
                    /\ UNCHANGED <<rt_samples, rng_pos, sampled_state, sampled_prob, run_pc>>
             ELSE IF Len(ShotsList(setting, n_qubits, n_shotsX, n_shotsY, n_shotsZ)) = 0
               THEN /\ run_pc' = "raised"
                    /\ sampled_state' = true_state
                    /\ UNCHANGED <<rt_samples, rt_pos, rng_pos, sampled_prob>>
             ELSE /\ sampled_prob' = meas_prob(true_state, setting)
                  /\ \E f \in FloatProbs(true_state, sampled_prob') :
                        rt_samples' =
                           DictPut(rt_samples, setting,
                                   Draw(rng, rng_pos,
                                        PyMin(ShotsList(setting, n_qubits, n_shotsX, n_shotsY, n_shotsZ)),
                                        f))
                  /\ rng_pos' = rng_pos
                                  + PyMin(ShotsList(setting, n_qubits, n_shotsX, n_shotsY, n_shotsZ))
                  /\ sampled_state' = true_state
                  /\ rt_pos' = rt_pos + 1
                  /\ UNCHANGED run_pc
    /\ UNCHANGED <<supplied_thetas, supplied_phis, objVars, ctor_state, rng,
                   ll_pos, ll_reads, ll_counts, est_params, reconstructed_state, fid>>

\* the loop is over: estimate_parameters is entered
RunSampled ==
    /\ run_pc = "sampling"
    /\ ~(rt_pos < 4 ^ n_qubits)
    /\ run_pc' = "estimating"
    /\ UNCHANGED <<supplied_thetas, supplied_phis, objVars, ctor_state, rng, rng_pos,
                   rt_samples, rt_pos, sampled_state, sampled_prob, ll_pos, ll_reads, ll_counts,
                   est_params, reconstructed_state, fid>>

\* log_likelihood(params, samples), as the optimiser evaluates it: one pass of
\* its loop over the settings; samples[setting] raises on a missing key
LlRead ==
    /\ run_pc = "estimating"
    /\ ll_pos < 4 ^ n_qubits
    /\ \E setting \in Settings(n_qubits) :
          /\ setting = SettingAt(n_qubits, ll_pos)
          /\ IF IsAllI(setting, n_qubits)
               THEN /\ ll_pos' = ll_pos + 1
                    /\ UNCHANGED <<ll_reads, ll_counts, run_pc>>
             ELSE IF setting \notin DOMAIN rt_samples
               THEN /\ run_pc' = "raised"
                    /\ ll_reads' = ll_reads \cup {setting}
                    /\ UNCHANGED <<ll_pos, ll_counts>>
             ELSE /\ ll_reads' = ll_reads \cup {setting}
                  /\ ll_counts' = DictPut(ll_counts, setting,
                                      <<CountOf(rt_samples[setting], 1),
                                        CountOf(rt_samples[setting], -1)>>)
                  /\ ll_pos' = ll_pos + 1
                  /\ UNCHANGED run_pc
    /\ UNCHANGED <<supplied_thetas, supplied_phis, objVars, ctor_state, rng, rng_pos,
                   rt_samples, rt_pos, sampled_state, sampled_prob, est_params, reconstructed_state, fid>>

\* estimate_parameters returns the vector of one of its attempts
RunEstimated ==
    /\ run_pc = "estimating"
    /\ ~(ll_pos < 4 ^ n_qubits)
    /\ est_params' \in Candidates(n_qubits)
    /\ run_pc' = "estimated"
    /\ UNCHANGED <<supplied_thetas, supplied_phis, objVars, ctor_state, rng, rng_pos,
                   rt_samples, rt_pos, sampled_state, sampled_prob, ll_pos, ll_reads, ll_counts,
                   reconstructed_state, fid>>

\* the reconstructed state and the fidelity; the plots are not modelled
RunFidelity ==
    /\ run_pc = "estimated"
    /\ reconstructed_state' =
          generate_multi_qubit_state(n_qubits, SubSeq(est_params, 1, n_theta_phi),
                                     SubSeq(est_params, n_theta_phi + 1, Len(est_params)))
    /\ fid' = fidelity(true_state, reconstructed_state')
    /\ run_pc' = "returned"
    /\ UNCHANGED <<supplied_thetas, supplied_phis, objVars, ctor_state, rng, rng_pos,
                   rt_samples, rt_pos, sampled_state, sampled_prob, ll_pos, ll_reads, ll_counts, est_params>>

-----------------------------------------------------------------------------
(* Specifications *)

SelfIdleShots == n_shotsX = 1000 /\ n_shotsY = 1000 /\ n_shotsZ = 1000

SelfIdle == n_qubits = 1 /\ SelfIdleShots

\* generate_multi_qubit_state, called on an n-qubit object
SpecGenInit ==
    GenCallInit /\ SelfIdleShots /\ FidIdle /\ BlochIdle /\ PtIdle /\ SamplesIdle /\ EstIdle /\ OrdIdle /\ UiIdle /\ RunIdle

genOthers == <<selfVars, fidVars, blochVars, ptVars, sampVars, estVars, ordVars, uiVars, runVars>>

SpecGenNext ==
    \/ GenRaise /\ UNCHANGED genOthers
    \/ GenEnter /\ UNCHANGED genOthers
    \/ GenStep /\ UNCHANGED genOthers
    \/ GenReturn /\ UNCHANGED genOthers

SpecGen == SpecGenInit /\ [][SpecGenNext]_vars

\* fidelity
SpecFidInit ==
    FidCallInit /\ SelfIdle /\ GenIdle /\ BlochIdle /\ PtIdle /\ SamplesIdle /\ EstIdle /\ OrdIdle /\ UiIdle /\ RunIdle

fidOthers == <<selfVars, genVars, blochVars, ptVars, sampVars, estVars, ordVars, uiVars, runVars>>

SpecFidNext ==
    \/ FidReturn /\ UNCHANGED fidOthers
    \/ FidRaise /\ UNCHANGED fidOthers

SpecFid == SpecFidInit /\ [][SpecFidNext]_vars

\* plot_multi_bloch: the reduced state and Bloch vector of every qubit
SpecBlochInit ==
    BlochCallInit /\ SelfIdleShots /\ GenIdle /\ FidIdle /\ PtIdle /\ SamplesIdle /\ EstIdle /\ OrdIdle /\ UiIdle /\ RunIdle

blochOthers == <<selfVars, genVars, fidVars, ptVars, sampVars, estVars, ordVars, uiVars, runVars>>

SpecBlochNext ==
    \/ BlochStep /\ UNCHANGED blochOthers
    \/ BlochReturn /\ UNCHANGED blochOthers

SpecBloch == SpecBlochInit /\ [][SpecBlochNext]_vars

\* partial_trace_density
SpecTraceInit ==
    PtCallInit /\ SelfIdleShots /\ GenIdle /\ FidIdle /\ BlochIdle /\ SamplesIdle /\ EstIdle /\ OrdIdle /\ UiIdle /\ RunIdle

ptOthers == <<selfVars, genVars, fidVars, blochVars, sampVars, estVars, ordVars, uiVars, runVars>>

SpecTraceNext ==
    \/ PtStep /\ UNCHANGED ptOthers
    \/ PtReturn /\ UNCHANGED ptOthers

SpecTrace == SpecTraceInit /\ [][SpecTraceNext]_vars

\* generate_samples
SpecSamplesInit == SamplesCallInit /\ FidIdle /\ BlochIdle /\ PtIdle /\ EstIdle /\ OrdIdle /\ UiIdle /\ RunIdle

sampOthers == <<selfVars, genVars, fidVars, blochVars, ptVars, estVars, ordVars, uiVars, runVars>>

SpecSamplesNext ==
    \/ SamplesRaise /\ UNCHANGED sampOthers
    \/ SamplesReturn /\ UNCHANGED sampOthers

SpecSamples == SpecSamplesInit /\ [][SpecSamplesNext]_vars

\* estimate_parameters, called on a one-qubit object (the function reads
\* n_qubits only for the sizes of the vectors)
SpecEstimateInit ==
    /\ SelfIdle
    /\ GenIdle /\ FidIdle /\ BlochIdle /\ PtIdle /\ SamplesIdle
    /\ EstCallInit /\ OrdIdle /\ UiIdle /\ RunIdle

estOthers == <<selfVars, genVars, fidVars, blochVars, ptVars, sampVars, ordVars, uiVars, runVars>>

SpecEstimateNext ==
    \/ EstAttempt /\ UNCHANGED estOthers
    \/ EstAttemptRaises /\ UNCHANGED estOthers
    \/ EstReturn /\ UNCHANGED estOthers

SpecEstimate == SpecEstimateInit /\ [][SpecEstimateNext]_vars

\* the selection of estimate_parameters on the same results in every order
SpecReduceInit ==
    /\ SelfIdle
    /\ GenIdle /\ FidIdle /\ BlochIdle /\ PtIdle /\ SamplesIdle
    /\ EstDoneInit /\ OrdInit /\ UiIdle /\ RunIdle

SpecReduceNext ==
    \/ Reorder /\ UNCHANGED <<selfVars, genVars, fidVars, blochVars, ptVars, sampVars, estVars, uiVars, runVars>>

SpecReduce == SpecReduceInit /\ [][SpecReduceNext]_vars

\* one Run click past the length test
SpecRunInit ==
    /\ RunClickInit
    /\ GenIdle /\ FidIdle /\ BlochIdle /\ PtIdle /\ SamplesIdle /\ EstIdle /\ OrdIdle /\ UiIdle

runOthers == <<selfVars, genVars, fidVars, blochVars, ptVars, sampVars, estVars, ordVars, uiVars>>

SpecRunNext ==
    \/ RunConstruct /\ UNCHANGED runOthers
    \/ RunOverride /\ UNCHANGED runOthers
    \/ RunSample /\ UNCHANGED runOthers
    \/ RunSampled /\ UNCHANGED runOthers
    \/ LlRead /\ UNCHANGED runOthers
    \/ RunEstimated /\ UNCHANGED runOthers
    \/ RunFidelity /\ UNCHANGED runOthers

SpecRun == SpecRunInit /\ [][SpecRunNext]_vars

\* the notebook session: the widgets as first displayed, then any UI events
Init ==
    /\ UiInit
    /\ SelfIdle /\ GenIdle /\ FidIdle /\ BlochIdle /\ PtIdle /\ SamplesIdle /\ EstIdle /\ OrdIdle
    /\ RunIdle

uiOthers == <<selfVars, genVars, fidVars, blochVars, ptVars, sampVars, estVars, ordVars, runVars>>

Next ==
    \/ SlideQubits /\ UNCHANGED uiOthers
    \/ SlideShots /\ UNCHANGED uiOthers
    \/ SlideTheta /\ UNCHANGED uiOthers
    \/ SlidePhi /\ UNCHANGED uiOthers
    \/ on_generate_angles_clicked /\ UNCHANGED uiOthers
    \/ on_run_button_clicked /\ UNCHANGED uiOthers

Spec == Init /\ [][Next]_vars

-----------------------------------------------------------------------------
(* Claims *)

\* sum of |v[j]|^2 over j in 0..hi
Norm2(v, hi) == CSum([j \in 0..hi |-> CAbs2(v[j])], 0, hi)

\* C4: generate_multi_qubit_state raises its dimension-mismatch ValueError,
\* leaving no state vector, whenever the theta list or the phi list (either
\* alone) is not 2^n_qubits - 1 long, and otherwise does not raise and returns
\* a vector indexed 0 .. 2^n_qubits - 1.
C4_DimensionMismatch ==
    gen_pc \in {"raised", "loop", "returned"} =>
        IF Len(thetas) # 2 ^ n_qubits - 1 \/ Len(phis) # 2 ^ n_qubits - 1
        THEN gen_pc = "raised" /\ state = NoFrame
        ELSE /\ gen_pc # "raised"
             /\ DOMAIN state = 0..(2 ^ n_qubits - 1)
             /\ Cardinality(DOMAIN state) = 2 ^ n_qubits

\* C4 witness: the call raised although the theta list had the right length
\* (the phi list alone was wrong).
C4_Witness ==
    /\ gen_pc = "raised"
    /\ Len(thetas) = 2 ^ n_qubits - 1
    /\ Len(phis) # 2 ^ n_qubits - 1

\* C6: during the peeling loop the squared residual plus the squared
\* magnitudes of the amplitudes written so far is 1, and the returned vector
\* has squared norm 1, with no renormalisation.
C6_UnitNorm ==
    /\ gen_pc = "loop" =>
          CAdd(CAbs2(amplitude), Norm2(state, idx)) = COne
    /\ gen_pc = "returned" =>
          Norm2(state, 2 ^ n_qubits - 1) = COne

\* C6 witness: a two-qubit state returned with every amplitude non-zero and
\* a non-real phase.
C6_Witness ==
    /\ gen_pc = "returned"
    /\ n_qubits = 2
    /\ \A j \in 0..3 : state[j] # CZero
    /\ \E j \in 0..3 : CIm(state[j]) # CZero

\* C10: fidelity is symmetric on vectors of equal length, and the fidelity of
\* a unit-norm vector with itself is 1.
C10_FidelitySymmetric ==
    fid_pc = "returned" =>
        /\ fid_ret = fidelity(state2, state1)
        /\ (state1 = state2 /\ Norm2(state1, VLen(state1) - 1) = COne) => fid_ret = COne

\* C10 witness: the fidelity of a unit-norm vector with a non-real entry with
\* itself came out 1, and (a second state) of two different non-orthogonal
\* vectors came out strictly between.
C10_Witness ==
    /\ fid_pc = "returned"
    /\ state1 = state2
    /\ Norm2(state1, VLen(state1) - 1) = COne
    /\ \E j \in DOMAIN state1 : CIm(state1[j]) # CZero
    /\ \E j \in DOMAIN state1 : CRe(state1[j]) # CZero
    /\ fid_ret = COne

\* the matrix |b><b| of one qubit
Projector2(b) == [i \in 0..1 |-> [j \in 0..1 |-> IF i = b /\ j = b THEN COne ELSE CZero]]

\* the density matrix of the computational-basis state of index b
BasisDensity(n, b) ==
    [i \in 0..(2 ^ n - 1) |-> [j \in 0..(2 ^ n - 1) |-> IF i = b /\ j = b THEN COne ELSE CZero]]

\* C7: big-endian convention: for the density matrix of the basis state of
\* index b, the reduced matrix of qubit k is the projector onto bit n-1-k of b
\* (qubit 0 the most significant); for |0>|1> (index 1 of 2 qubits) qubit 0
\* gives |0><0| and qubit 1 gives |1><1|.
C7_BigEndianPartialTrace ==
    \A b \in 0..(2 ^ n_qubits - 1) :
        (bloch_pc # "idle" /\ qubit >= 0 /\ rho = BasisDensity(n_qubits, b)) =>
            /\ reduced_rho = Projector2((b \div (2 ^ (n_qubits - 1 - qubit))) % 2)
            /\ (n_qubits = 2 /\ b = 1 /\ qubit = 0) => reduced_rho = Projector2(0)
            /\ (n_qubits = 2 /\ b = 1 /\ qubit = 1) => reduced_rho = Projector2(1)

\* C7 witness: the reduced matrix of qubit 1 of |0>|1> has been computed and is |1><1|.
C7_Witness ==
    /\ n_qubits = 2
    /\ rho = BasisDensity(2, 1)
    /\ qubit = 1
    /\ reduced_rho = Projector2(1)

\* the configured shot count of an axis
ShotsOfAxis(a) == CASE a = "X" -> n_shotsX [] a = "Y" -> n_shotsY [] a = "Z" -> n_shotsZ

\* the axis symbols that appear in the setting
AxesIn(setting) == {setting[q] : q \in DOMAIN setting} \ {"I"}

\* C5: for a setting that is not all-I, generate_samples returns as many
\* shots as the least shot count among the axes X/Y/Z that appear in the
\* setting: I contributes nothing, an absent axis does not limit the count.
C5_ShotCountIsMinOverAxes ==
    (samp_pc \in {"returned", "raised"} /\ AxesIn(meas_op_string) # {}) =>
        /\ samp_pc = "returned"
        /\ \E a \in AxesIn(meas_op_string) : Len(samples) = ShotsOfAxis(a)
        /\ \A a \in AxesIn(meas_op_string) : Len(samples) <= ShotsOfAxis(a)

\* C5 witness: a setting with an I and a single axis returned that axis's shot
\* count although an absent axis has fewer shots configured.
C5_Witness ==
    /\ samp_pc = "returned"
    /\ meas_op_string = <<"I", "X">>
    /\ n_shotsZ < n_shotsX
    /\ n_shotsY < n_shotsX
    /\ Len(samples) = n_shotsX

\* the attempts (1-based) whose objective value is the least of all
MinAttempts(vals) ==
    LET least == CHOOSE v \in {vals[j] : j \in DOMAIN vals} :
                     \A j \in DOMAIN vals : v <= vals[j]
    IN  {i \in DOMAIN vals : vals[i] = least}

\* C1: estimate_parameters never makes more than 50 attempts, returns only
\* after exactly 50, and returns the parameter vector of the earliest attempt
\* among those whose objective value is the least of the 50.
C1_BestOfFiftyFirstFound ==
    /\ converged_attempts + raised_attempts <= 50
    /\ Len(opt_val) <= 50 /\ Len(opt_params) = Len(opt_val)
    /\ est_pc = "returned" =>
          /\ converged_attempts = 50
          /\ Len(opt_val) = 50
          /\ \E i \in MinAttempts(opt_val) :
                /\ \A j \in MinAttempts(opt_val) : i <= j
                /\ est_ret = opt_params[i]

\* C1 witness: a call returned the first attempt's vector although a later
\* attempt reached the same least objective value at another vector, and
\* (second conjunct aside) the objective is not constant.
C1_Witness ==
    /\ est_pc = "returned"
    /\ est_ret = opt_params[1]
    /\ \E j \in MinAttempts(opt_val) : opt_params[j] # est_ret
    /\ \E s, t \in DOMAIN objective : objective[s] # objective[t]

\* C2 as claimed: a call in which at least one attempt has converged does
\* not fail.
C2_OneConvergedSuffices ==
    ~(est_pc = "raised" /\ converged_attempts >= 1)

\* C2 amended: the first attempt that raises ends the call with that error
\* and no parameter vector, whatever the attempts before it returned; a call
\* returns a vector only when none of its 50 attempts raised.
C2_FirstRaiseFails ==
    /\ raised_attempts > 0 => est_pc = "raised" /\ est_ret = NoFrame
    /\ est_pc = "returned" =>
          /\ raised_attempts = 0
          /\ converged_attempts = 50
          /\ \E i \in 1..50 : est_ret = opt_params[i]

\* C2 witness: a call failed at its last attempt, 49 attempts having converged.
C2_Witness ==
    /\ est_pc = "raised"
    /\ converged_attempts = 49
    /\ est_ret = NoFrame

\* C8 as claimed: whatever the order of the attempts' results, the same
\* parameter vector is selected.
C8_OrderIndependent == ord_ret = est_ret

\* C8 amended: in every order the selected vector is one of least objective
\* value, so the selected objective value is the same; the vector itself is
\* the same whenever all attempts of least objective value returned the same
\* vector (otherwise the earliest of them in the given order is selected).
C8_OrderIndependentUpToTies ==
    /\ log_likelihood(objective, ord_ret, n_qubits) = log_likelihood(objective, est_ret, n_qubits)
    /\ \E i \in MinAttempts(ord_val) : ord_ret = ord_params[i]
    /\ (\A i, j \in MinAttempts(opt_val) : opt_params[i] = opt_params[j]) => ord_ret = est_ret

\* C8 witness: the results were reordered, the least objective value is
\* reached by one attempt only, not the first in either order, and both
\* orders select its vector.
C8_Witness ==
    /\ est_pc = "returned"
    /\ ord_params # opt_params
    /\ Cardinality(MinAttempts(opt_val)) = 1
    /\ 1 \notin MinAttempts(opt_val)
    /\ 1 \notin MinAttempts(ord_val)
    /\ ord_ret = est_ret

\* C3: after a Run click made while the number of theta sliders or of phi
\* sliders differs from 2^n_qubits - 1, the output shows the error message as
\* the last line and the handler made no call of generate_samples, of
\* estimate_parameters or of fidelity.
C3_ConfigErrorsBeforeWork ==
    (/\ last_event = "run"
     /\ \/ Len(theta_sliders) # 2 ^ n_qubits_slider - 1
        \/ Len(phi_sliders) # 2 ^ n_qubits_slider - 1)
    => /\ output_box = <<RunningLine(n_qubits_slider), ThetaValuesLine(Len(theta_sliders)),
                         PhiValuesLine(Len(phi_sliders)), ErrorLine>>
       /\ samples_calls = 0
       /\ estimate_calls = 0
       /\ fidelity_calls = 0

\* C3 witness: Run was clicked with sliders generated for another qubit count
\* (one theta and one phi slider, two qubits selected), and the error shows.
C3_Witness ==
    /\ last_event = "run"
    /\ n_qubits_slider = 2
    /\ Len(theta_sliders) = 1 /\ Len(phi_sliders) = 1
    /\ output_box[4] = ErrorLine
    /\ samples_calls = 0 /\ estimate_calls = 0 /\ fidelity_calls = 0

\* M equals its conjugate transpose
IsHermitian(M) == \A i \in DOMAIN M : \A j \in DOMAIN M : M[i][j] = CConj(M[j][i])

\* the sum of the diagonal entries of rows 0..hi-1
TraceUpTo(M, hi) == IF hi <= 0 THEN CZero ELSE CSum([i \in 0..(hi - 1) |-> M[i][i]], 0, hi - 1)

\* C12: for a Hermitian matrix rho of trace 1 and a target qubit in
\* 0..n-1, the matrix partial_trace_density returns is 2x2, Hermitian and of
\* the trace of rho; after every row of the outer loop the trace accumulated
\* is the sum of the diagonal entries of the rows done, and every diagonal
\* entry of rho alone goes to exactly one entry of the result, a diagonal one.
C12_ReducedHermitianUnitTrace ==
    (/\ pt_pc # "idle"
     /\ IsHermitian(pt_rho)
     /\ TraceUpTo(pt_rho, 2 ^ n_qubits) = COne)
    => /\ DOMAIN pt_reduced_rho = 0..1
       /\ \A a \in 0..1 : DOMAIN pt_reduced_rho[a] = 0..1
       /\ TraceUpTo(pt_reduced_rho, 2) = TraceUpTo(pt_rho, pt_i)
       /\ pt_pc = "returned" =>
             /\ pt_i = 2 ^ n_qubits
             /\ IsHermitian(pt_reduced_rho)
             /\ TraceUpTo(pt_reduced_rho, 2) = COne
             /\ pt_reduced_rho = partial_trace_density(n_qubits, pt_rho, target_qubit)
             /\ \A i \in 0..(2 ^ n_qubits - 1) :
                   \E b \in 0..1 :
                       partial_trace_density(n_qubits, BasisDensity(n_qubits, i), target_qubit)
                           = Projector2(b)

\* C12 witness: the reduced matrix of an even mixture of two qubits' states
\* was returned; it is not a projector-like diagonal matrix (off-diagonal
\* entries are present), is Hermitian and has trace 1.
C12_Witness ==
    /\ pt_pc = "returned"
    /\ n_qubits = 2
    /\ IsHermitian(pt_rho)
    /\ TraceUpTo(pt_rho, 4) = COne
    /\ \E i \in 0..3 : pt_rho[i][i] = CHalf(CHalf(COne))
    /\ pt_reduced_rho[0][1] # CZero
    /\ pt_reduced_rho[0][1] = CConj(pt_reduced_rho[1][0])
    /\ TraceUpTo(pt_reduced_rho, 2) = COne

\* the settings other than all-I among the first k of the product
SettingsBefore(n, k) ==
    {SettingAt(n, i) : i \in 0..(k - 1)} \ {[q \in 1..n |-> "I"]}

\* the least configured shot count among the axes of the setting
LeastShots(st) ==
    CHOOSE m \in {ShotsOfAxis(a) : a \in AxesIn(st)} : \A a \in AxesIn(st) : m <= ShotsOfAxis(a)

\* C11: in run_tomography the outcome set gets one entry for each setting of
\* {I,X,Y,Z}^n other than all-I (4^n - 1 of them once the loop is over) and
\* none for all-I; an entry holds only +1 / -1 values, as many as the least
\* shot count of its axes; log_likelihood looks up settings that have an
\* entry only (no lookup fails) and, once its loop is over, has read exactly
\* the entries of the outcome set, n_plus1 + n_minus1 being the length of
\* the entry.
C11_OutcomeSetMatchesLookups ==
    run_pc \notin {"idle", "checked", "constructed"} =>
        /\ run_pc # "raised"
        /\ DOMAIN rt_samples = SettingsBefore(n_qubits, rt_pos)
        /\ \A st \in DOMAIN rt_samples :
              /\ \A j \in DOMAIN rt_samples[st] : rt_samples[st][j] \in {1, -1}
              /\ Len(rt_samples[st]) = LeastShots(st)
        /\ ll_reads = SettingsBefore(n_qubits, ll_pos)
        /\ ll_reads \subseteq DOMAIN rt_samples
        /\ DOMAIN ll_counts = ll_reads
        /\ \A st \in ll_reads : ll_counts[st][1] + ll_counts[st][2] = Len(rt_samples[st])
        /\ run_pc \in {"estimating", "estimated", "returned"} =>
              /\ Cardinality(DOMAIN rt_samples) = 4 ^ n_qubits - 1
              /\ DOMAIN rt_samples = Settings(n_qubits) \ {[q \in 1..n_qubits |-> "I"]}
        /\ run_pc \in {"estimated", "returned"} => ll_reads = DOMAIN rt_samples

\* C11 witness: a run on two qubits returned; its 15 entries were all read,
\* and the entry of one setting holds both a +1 and a -1.
C11_Witness ==
    /\ run_pc = "returned"
    /\ n_qubits = 2
    /\ Cardinality(DOMAIN rt_samples) = 15
    /\ ll_reads = DOMAIN rt_samples
    /\ <<"I", "I">> \notin DOMAIN rt_samples
    /\ \E st \in DOMAIN rt_samples :
          /\ ll_counts[st][1] >= 1
          /\ ll_counts[st][2] >= 1

\* C13: while run_tomography executes after a Run click, true_thetas and
\* true_phis are the angles read from the sliders, true_params is their
\* concatenation and true_state is generate_multi_qubit_state of those angles
\* (the constructor's random state is gone); run_tomography changes none of
\* the four, so the state the samples were drawn from is the state the
\* fidelity is computed against.
C13_TrueFieldsConsistent ==
    run_pc \in {"sampling", "estimating", "estimated", "returned", "raised"} =>
        /\ true_thetas = supplied_thetas
        /\ true_phis = supplied_phis
        /\ true_params = Concatenate(supplied_thetas, supplied_phis)
        /\ n_theta_phi = Len(supplied_thetas)
        /\ true_state = generate_multi_qubit_state(n_qubits, supplied_thetas, supplied_phis)
        /\ DOMAIN rt_samples # {} => sampled_state = true_state
        /\ run_pc = "returned" =>
              /\ sampled_state = true_state
              /\ fid = fidelity(sampled_state, reconstructed_state)

\* C13 witness: a run returned whose true state differs from the state the
\* constructor drew, and the fidelity against the constructor's state would
\* have been another number.
C13_Witness ==
    /\ run_pc = "returned"
    /\ ctor_state # true_state
    /\ sampled_state = true_state
    /\ true_state = generate_multi_qubit_state(n_qubits, supplied_thetas, supplied_phis)
    /\ fid = fidelity(true_state, reconstructed_state)
    /\ fid # fidelity(ctor_state, reconstructed_state)

====
